---- MODULE Spec2Model ----
(***************************************************************************)
(* Model of imgui-rs: TextureId and the generic texture registry           *)
(* Textures<T> (src/imgui/src/render/renderer.rs), the IME callback shim   *)
(* (src/imgui/src/ime.rs), and StyleColor and the Style it indexes         *)
(* (src/imgui/src/style.rs).                                               *)
(*                                                                         *)
(* The registry is the pair (textures, next): a HashMap<u64, T> and the    *)
(* u64 counter that mints handles.  The u64 type is modelled with its      *)
(* wrap-around kept, over the value range 0 .. U64_MAX.                    *)
(***************************************************************************)
EXTENDS Integers, Sequences, FiniteSets, TLC

\* Stand-in for u64::MAX, the largest value of the handle type.
U64_MAX == 2

\* Number of insert calls the model follows after the counter has wrapped.
InsertsPastWrap == 2

\* Number of IME contexts the model creates, the first dummy included.
MaxContexts == 3

\* Number of IME callbacks the native library fires in the model.
MaxCallbacks == 2

\* How far past StyleColor::COUNT the conversion arguments range.
ExtraValues == 2

\* Number of assignments style[c] = v the model follows.
MaxWrites == 1

\* The values of type u64.
U64 == 0 .. U64_MAX

\* The values of the resource type T (opaque, compared by identity).
Resources == {"A", "B"}

\* Option::None.
None == "None"

\* A call that unwound with "attempt to add with overflow" instead of returning.
Panic == "panic"

\* Option<T>.
OptionT == Resources \cup {None}

VARIABLES
    textures,        \* Textures::textures, as a function U64 -> Option<T>
    next,            \* Textures::next
    overflowChecks,  \* build profile: are integer overflow checks compiled in
    issued,          \* history: the handles insert has returned, in order
    stored,          \* history: the keys insert or replace has stored under
    pinned,          \* history: per handle, the resources insert bound to it
                     \*   since the last remove / replace of that handle
    last,            \* history: the last call, its arguments and its result
    prevSame         \* history: result of the call before the last one when
                     \*   it was the same operation on the same handle

vars == <<textures, next, overflowChecks, issued, stored, pinned, last, prevSame>>

VARIABLES
    Platform_ImeUserData,  \* the process-wide slot: the installed context
    contexts,        \* every ImeDataContext created so far, by address
    pc,              \* position of the thread inside / outside set_ime_data
    frame,           \* arguments and locals of the running set_ime_data
    process,         \* "running" or "aborted"
    stderr,          \* the lines written to standard error
    effects,         \* what user handlers have done to the platform
    calls,           \* history: every handler invocation, in order
    fired,           \* history: number of callbacks the library has fired
    returns,         \* history: number of callbacks that returned to it
    imeOp            \* history: the last installation step

imeVars == <<Platform_ImeUserData, contexts, pc, frame, process, stderr,
             effects, calls, fired, returns, imeOp>>

VARIABLES
    docking,         \* build: is the cargo feature "docking" enabled
    usizeBits,       \* build: the width of usize on the target
    styleOp,         \* history: the last StyleColor operation
    styleValue,      \* history: its integer argument
    styleResult,     \* history: the Result it returned
    styleCast,       \* history: the returned variant `as usize`
    styleNative,     \* history: the native library's answer to the same call
    style,           \* a Style value
    lastIndex,       \* history: the last assignment style[c] = v
    writes,          \* history: number of assignments made to style
    layout           \* history: what test_texture_id_memory_layout measured

indexVars == <<style, lastIndex, writes>>

styleVars == <<docking, usizeBits, styleOp, styleValue, styleResult, styleCast,
               styleNative, indexVars, layout>>

----------------------------------------------------------------------------
(* TextureId *)

\* TextureId::new(id): the newtype wraps the integer unchanged.
TextureId_new(id) == [id |-> id]

\* TextureId::id(self).
TextureId_id(self) == self.id

\* From<u64> that goes through the range below u64::MAX: the largest value
\* comes out as 0.
TextureId_from_truncated(id) == [id |-> id % U64_MAX]

\* impl From<u64> for TextureId.
TextureId_from(id) == [id |-> id]

\* The derived PartialEq / Eq: the fields are compared.
TextureId_eq(a, b) == a.id = b.id

\* The alignments the targets with a usize of that width give a 64-bit
\* integer: 8, and 4 on some 32-bit targets.
U64Aligns(bits) == IF bits >= 64 THEN {8} ELSE {4, 8}

\* size_of and align_of of u64 on a target.
Layout_u64(bits, align) == [size |-> 8, align |-> align]

\* TextureId declared as a wrapper of usize, as the pointer conversions
\* suggest: the size and the alignment are the pointer's.
TextureId_layout_usize(bits, align) ==
    [size |-> bits \div 8, align |-> bits \div 8]

\* #[repr(transparent)] struct TextureId(u64): the layout of its one field.
TextureId_layout(bits, align) == Layout_u64(bits, align)

\* sys::ImTextureID: the native library's texture identifier, a 64-bit
\* unsigned integer.
sys_ImTextureID_layout(bits, align) == Layout_u64(bits, align)

----------------------------------------------------------------------------
(* HashMap<u64, T> as a total function into Option<T> *)

\* HashMap::new(): no key is bound.
HashMap_new == [k \in U64 |-> None]

\* HashMap::insert(k, v): binds k to v and returns the value k was bound to.
HashMap_insert(m, k, v) == [map |-> [m EXCEPT ![k] = v], old |-> m[k]]

\* HashMap::remove(&k): unbinds k and returns the value it was bound to.
HashMap_remove(m, k) == [map |-> [m EXCEPT ![k] = None], old |-> m[k]]

\* HashMap::get(&k) / HashMap::get_mut(&k).
HashMap_get(m, k) == m[k]

\* u64 addition as the build compiles it: with overflow checks the addition
\* panics when the result does not fit, without them it wraps.
AddU64(a, b, checks) ==
    IF a + b > U64_MAX
    THEN IF checks THEN [panic |-> TRUE, value |-> a]
                   ELSE [panic |-> FALSE, value |-> (a + b) % (U64_MAX + 1)]
    ELSE [panic |-> FALSE, value |-> a + b]

----------------------------------------------------------------------------
(* Textures<T> *)

\* The values of type TextureId.
TextureIds == {TextureId_new(v) : v \in U64}

\* Textures::new() and Textures::default(): an empty map and a zero counter.
Textures_new == [textures |-> HashMap_new, next |-> 0]

\* insert with the increment moved before the map write: the resource is
\* stored under the incremented counter while the old value is returned.
insert_preincrement(t, n, checks, texture) ==
    LET add == AddU64(n, 1, checks)
        ins == HashMap_insert(t, add.value, texture)
    IN  [textures |-> ins.map,
         next     |-> add.value,
         old      |-> ins.old,
         panicked |-> add.panic,
         ret      |-> TextureId_from(n)]

\* Textures::insert(&mut self, texture): the handle is the counter's value,
\* the map is written first, then the counter is incremented.  `old` is the
\* value HashMap::insert returns and insert drops.  When the increment
\* panics the map has already been written and no handle is returned.
insert(t, n, checks, texture) ==
    LET id  == n
        ins == HashMap_insert(t, id, texture)
        add == AddU64(n, 1, checks)
    IN  [textures |-> ins.map,
         next     |-> add.value,
         old      |-> ins.old,
         panicked |-> add.panic,
         ret      |-> TextureId_from(id)]

\* replace written with entry(id).or_insert(texture): a bound handle keeps
\* its resource.
replace_or_insert(t, n, id, texture) ==
    LET k == id.id
    IN  [textures |-> IF t[k] = None THEN [t EXCEPT ![k] = texture] ELSE t,
         next     |-> n,
         ret      |-> t[k]]

\* replace that mints a counter value when the handle is unbound.
replace_consumes_counter(t, n, id, texture) ==
    LET ins == HashMap_insert(t, id.id, texture)
    IN  [textures |-> ins.map,
         next     |-> IF ins.old = None THEN (n + 1) % (U64_MAX + 1) ELSE n,
         ret      |-> ins.old]

\* Textures::replace(&mut self, id, texture).
replace(t, n, id, texture) ==
    LET ins == HashMap_insert(t, id.id, texture)
    IN  [textures |-> ins.map, next |-> n, ret |-> ins.old]

\* remove that hands the resource out without unbinding the handle.
remove_peek(t, n, id) ==
    [textures |-> t, next |-> n, ret |-> HashMap_get(t, id.id)]

\* remove that empties the whole map.
remove_clear(t, n, id) ==
    [textures |-> HashMap_new, next |-> n, ret |-> HashMap_get(t, id.id)]

\* Textures::remove(&mut self, id).
remove(t, n, id) ==
    LET rem == HashMap_remove(t, id.id)
    IN  [textures |-> rem.map, next |-> n, ret |-> rem.old]

\* get written with the indexing operator, which panics on an absent key.
get_index(t, id) ==
    IF HashMap_get(t, id.id) = None THEN Panic ELSE HashMap_get(t, id.id)

\* Textures::get(&self, id).
get(t, id) == HashMap_get(t, id.id)

\* get_mut that takes the first entry of values_mut(): a bound resource,
\* whatever the handle.
get_mut_first_value(t, id) ==
    IF \E k \in U64 : t[k] # None
    THEN t[CHOOSE k \in U64 : t[k] # None /\ \A j \in U64 : t[j] # None => k <= j]
    ELSE None

\* Textures::get_mut(&mut self, id): the same lookup, borrowed mutably.
get_mut(t, id) == HashMap_get(t, id.id)

----------------------------------------------------------------------------
(* IME shim: data and contexts *)

\* The viewports a callback can be fired for.
Viewports == {"V1", "V2"}

\* The values of PlatformImeData; the second one is PlatformImeData::default().
ImeData ==
    {[want_visible |-> TRUE,  input_pos |-> <<10, 20>>, input_line_height |-> 16],
     [want_visible |-> FALSE, input_pos |-> <<0, 0>>,   input_line_height |-> 0]}

\* What the data argument of a callback can be: a null pointer or a pointer
\* to a PlatformImeData.
DataPtrs ==
    {[null |-> TRUE, pointee |-> d] : d \in {CHOOSE x \in ImeData : ~x.want_visible}}
        \cup {[null |-> FALSE, pointee |-> d] : d \in ImeData}

\* The placeholder backend, DummyImeDataContext.
Dummy == "DummyImeDataContext"

\* The backends a host application supplies (implementations of
\* ImeDataBackend).
UserBackends == {"H1", "H2"}

\* ImeDataContext::new with the body of dummy(): the backend is dropped and
\* the placeholder is boxed.
ImeDataContext_new_placeholder(backend) == [backend |-> Dummy, live |-> TRUE]

\* ImeDataContext::new(backend): the context owns the boxed backend.
ImeDataContext_new(backend) == [backend |-> backend, live |-> TRUE]

\* ImeDataContext::dummy(): a context that owns a DummyImeDataContext.
ImeDataContext_dummy == [backend |-> Dummy, live |-> TRUE]

\* A placeholder whose body is unimplemented!() instead of empty.
DummyImeDataContext_unimplemented(eff, viewport, data) ==
    [panic |-> TRUE, effects |-> eff]

\* DummyImeDataContext::set_ime_data: the body is empty.
DummyImeDataContext_set_ime_data(eff, viewport, data) ==
    [panic |-> FALSE, effects |-> eff]

\* A user backend's set_ime_data: it either raises a fault or returns after
\* telling the platform what it was given.
UserBackend_set_ime_data(backend, behaviour, eff, viewport, data) ==
    IF behaviour = "panic"
    THEN [panic |-> TRUE, effects |-> eff]
    ELSE [panic |-> FALSE,
          effects |-> Append(eff, [backend |-> backend, viewport |-> viewport,
                                   data |-> data])]

\* The data argument read with as_ref().unwrap_or_default(): a null pointer
\* yields the default value instead of a fault.
ReadImeData_or_default(data_ptr) ==
    [panic |-> FALSE, data |-> data_ptr.pointee]

\* The data argument replaced by PlatformImeData::default() when it is not
\* null: what the native library pointed to is not passed on.
ReadImeData_zeroed(data_ptr) ==
    [panic |-> data_ptr.null,
     data  |-> CHOOSE d \in ImeData : ~d.want_visible]

\* set_ime_data, line 61: *(data as *mut PlatformImeData).as_ref().unwrap():
\* a null pointer makes unwrap panic, otherwise the pointee is copied.
ReadImeData(data_ptr) ==
    IF data_ptr.null
    THEN [panic |-> TRUE, data |-> data_ptr.pointee]
    ELSE [panic |-> FALSE, data |-> data_ptr.pointee]

\* The lookup done once and kept: the context that was created first.
LookupContext_first(slot, ctxs) == 1

\* set_ime_data, lines 63-64: the context is whatever the slot holds.
LookupContext(slot, ctxs) == slot

\* The behaviours a call of the backend of context ctx can show.  A context
\* that was released is a dangling reference: the call can crash or run
\* what is left of the backend.
Behaviours(ctxs, ctx) ==
    IF ~ctxs[ctx].live THEN {"return", "panic", "crash"}
    ELSE IF ctxs[ctx].backend = Dummy THEN {"return"}
    ELSE {"return", "panic"}

\* set_ime_data, lines 66-67: ctx.backend.set_ime_data(viewport, data),
\* dispatched on the backend the context owns.
Dispatch(ctxs, ctx, behaviour, eff, viewport, data) ==
    IF ctxs[ctx].backend = Dummy
    THEN DummyImeDataContext_set_ime_data(eff, viewport, data)
    ELSE UserBackend_set_ime_data(ctxs[ctx].backend, behaviour, eff,
                                  viewport, data)

\* The trampoline ending in the diagnostic and the abort whatever
\* catch_unwind returned.
AfterCatch_abort_always(unwound) == "diagnose"

\* The result of catch_unwind ignored: the trampoline returns either way.
AfterCatch_ignore(unwound) == "return"

\* The handler of a caught panic with the abort before the eprintln!.
AfterCatch_abort_first(unwound) == IF unwound THEN "abort" ELSE "return"

\* set_ime_data, lines 69-72: result.unwrap_or_else(..): a caught panic goes
\* on to the diagnostic and the abort, a normal result returns.
AfterCatch(unwound) == IF unwound THEN "diagnose" ELSE "return"

\* An installation that releases the context the slot holds and leaves the
\* slot pointing at it.
InstallContext_release_only(ctxs, slot, ctx) ==
    [contexts |-> Append([ctxs EXCEPT ![slot].live = FALSE], ctx),
     slot     |-> slot]

\* Installing context ctx: the slot is pointed at it and the context the
\* slot held is released.
InstallContext(ctxs, slot, ctx) ==
    [contexts |-> Append([ctxs EXCEPT ![slot].live = FALSE], ctx),
     slot     |-> Len(ctxs) + 1]

\* The line eprintln! writes.
Diagnostic == "IME data setter panicked"

\* The IME shim before any backend is installed: the slot holds a dummy
\* context and no callback is running.
ImeStart ==
    /\ contexts = <<ImeDataContext_dummy>>
    /\ Platform_ImeUserData = 1
    /\ pc = "native"
    /\ frame = [viewport |-> "V1",
                data_ptr |-> CHOOSE p \in DataPtrs : p.null,
                data |-> (CHOOSE p \in DataPtrs : p.null).pointee,
                ctx |-> 1, lookups |-> 0,
                read |-> FALSE, dispatched |-> FALSE, unwound |-> FALSE]
    /\ process = "running"
    /\ stderr = << >>
    /\ effects = << >>
    /\ calls = << >>
    /\ fired = 0
    /\ returns = 0
    /\ imeOp = "create"

----------------------------------------------------------------------------
(* StyleColor *)

\* The native enumeration ImGuiCol_, in the order of Dear ImGui's header;
\* the two docking entries exist in the docking build of the library only.
ImGuiCol_(dock) ==
    <<"Text", "TextDisabled", "WindowBg", "ChildBg", "PopupBg", "Border",
       "BorderShadow", "FrameBg", "FrameBgHovered", "FrameBgActive",
       "TitleBg", "TitleBgActive", "TitleBgCollapsed", "MenuBarBg",
       "ScrollbarBg", "ScrollbarGrab", "ScrollbarGrabHovered",
       "ScrollbarGrabActive", "CheckMark", "SliderGrab",
       "SliderGrabActive", "Button", "ButtonHovered", "ButtonActive",
       "Header", "HeaderHovered", "HeaderActive", "Separator",
       "SeparatorHovered", "SeparatorActive", "ResizeGrip",
       "ResizeGripHovered", "ResizeGripActive", "TabHovered", "Tab",
       "TabSelected", "TabSelectedOverline", "TabDimmed",
       "TabDimmedSelected", "TabDimmedSelectedOverline" >>
    \o (IF dock THEN << "DockingPreview", "DockingEmptyBg" >> ELSE << >>)
    \o
    <<"PlotLines", "PlotLinesHovered", "PlotHistogram",
       "PlotHistogramHovered", "TableHeaderBg", "TableBorderStrong",
       "TableBorderLight", "TableRowBg", "TableRowBgAlt", "TextLink",
       "TextSelectedBg", "DragDropTarget", "NavCursor",
       "NavWindowingHighlight", "NavWindowingDimBg", "ModalWindowDimBg" >>

\* Position of the first occurrence of x in the sequence s.
IndexOf(s, x) == CHOOSE i \in 1 .. Len(s) : s[i] = x /\ \A j \in 1 .. i - 1 : s[j] # x

\* sys::ImGuiCol_<name>: the value the native enumeration gives the entry.
sys_ImGuiCol(name, dock) == IndexOf(ImGuiCol_(dock), name) - 1

\* sys::ImGuiCol_COUNT: the entry that closes the native enumeration.
sys_ImGuiCol_COUNT(dock) == Len(ImGuiCol_(dock))

\* `v as usize` for a u32 v: zero-extension when usize is at least as wide,
\* truncation otherwise.
u32_as_usize(v, bits) == IF bits >= 32 THEN v ELSE v % (2 ^ bits)

\* enum StyleColor: the variants that exist in the build.
StyleColor(dock) ==
    { "Text", "TextDisabled", "WindowBg", "ChildBg", "PopupBg", "Border",
       "BorderShadow", "FrameBg", "FrameBgHovered", "FrameBgActive",
       "TitleBg", "TitleBgActive", "TitleBgCollapsed", "MenuBarBg",
       "ScrollbarBg", "ScrollbarGrab", "ScrollbarGrabHovered",
       "ScrollbarGrabActive", "CheckMark", "SliderGrab",
       "SliderGrabActive", "Button", "ButtonHovered", "ButtonActive",
       "Header", "HeaderHovered", "HeaderActive", "Separator",
       "SeparatorHovered", "SeparatorActive", "ResizeGrip",
       "ResizeGripHovered", "ResizeGripActive", "TabHovered", "Tab",
       "TabSelected", "TabSelectedOverline", "TabDimmed",
       "TabDimmedSelected", "TabDimmedSelectedOverline" }
    \cup (IF dock THEN { "DockingPreview", "DockingEmptyBg" } ELSE { })
    \cup
    { "PlotLines", "PlotLinesHovered", "PlotHistogram",
       "PlotHistogramHovered", "TableHeaderBg", "TableBorderStrong",
       "TableBorderLight", "TableRowBg", "TableRowBgAlt", "TextLink",
       "TextSelectedBg", "DragDropTarget", "NavCursor",
       "NavWindowingHighlight", "NavWindowingDimBg", "ModalWindowDimBg" }

\* The discriminant of a variant: each is declared `X = sys::ImGuiCol_X`.
Discriminant(c, dock) == sys_ImGuiCol(c, dock)

\* `c as usize` for a variant c of the #[repr(u32)] enum.
StyleColor_as_usize(c, dock, bits) == u32_as_usize(Discriminant(c, dock), bits)

\* StyleColor::COUNT.
COUNT(dock, bits) == u32_as_usize(sys_ImGuiCol_COUNT(dock), bits)

\* The entries of VARIANTS before and after the feature-gated ones.
VARIANTS_head ==
    <<"Text", "TextDisabled", "WindowBg", "ChildBg", "PopupBg", "Border",
       "BorderShadow", "FrameBg", "FrameBgHovered", "FrameBgActive",
       "TitleBg", "TitleBgActive", "TitleBgCollapsed", "MenuBarBg",
       "ScrollbarBg", "ScrollbarGrab", "ScrollbarGrabHovered",
       "ScrollbarGrabActive", "CheckMark", "SliderGrab",
       "SliderGrabActive", "Button", "ButtonHovered", "ButtonActive",
       "Header", "HeaderHovered", "HeaderActive", "Separator",
       "SeparatorHovered", "SeparatorActive", "ResizeGrip",
       "ResizeGripHovered", "ResizeGripActive", "TabHovered", "Tab",
       "TabSelected", "TabSelectedOverline", "TabDimmed",
       "TabDimmedSelected", "TabDimmedSelectedOverline" >>

VARIANTS_docking == << "DockingPreview", "DockingEmptyBg" >>

VARIANTS_tail ==
    <<"PlotLines", "PlotLinesHovered", "PlotHistogram",
       "PlotHistogramHovered", "TableHeaderBg", "TableBorderStrong",
       "TableBorderLight", "TableRowBg", "TableRowBgAlt", "TextLink",
       "TextSelectedBg", "DragDropTarget", "NavCursor",
       "NavWindowingHighlight", "NavWindowingDimBg", "ModalWindowDimBg" >>

\* VARIANTS with the feature-gated entries appended at the end.
VARIANTS_docking_last(dock) ==
    VARIANTS_head \o VARIANTS_tail \o (IF dock THEN VARIANTS_docking ELSE << >>)

\* StyleColor::VARIANTS.
VARIANTS(dock) ==
    VARIANTS_head \o (IF dock THEN VARIANTS_docking ELSE << >>) \o VARIANTS_tail

\* Result<StyleColor, InvalidStyleColorValue>, and an unwinding panic.
InvalidStyleColorValue == "InvalidStyleColorValue"
Ok(c) == [ok |-> TRUE, value |-> c]
Err(e) == [ok |-> FALSE, value |-> e]
IndexOutOfBounds == [ok |-> FALSE, value |-> "panic: index out of bounds"]

\* VARIANTS[value], with the bounds check of array indexing.
VARIANTS_index(value, dock) ==
    IF value < Len(VARIANTS(dock)) THEN Ok(VARIANTS(dock)[value + 1])
    ELSE IndexOutOfBounds

\* try_from(value: usize) that lets value = COUNT through to the array.
TryFrom_usize_inclusive(value, dock, bits) ==
    IF value > COUNT(dock, bits) THEN Err(InvalidStyleColorValue)
    ELSE VARIANTS_index(value, dock)

\* <StyleColor as TryFrom<usize>>::try_from.
TryFrom_usize(value, dock, bits) ==
    IF value >= COUNT(dock, bits) THEN Err(InvalidStyleColorValue)
    ELSE VARIANTS_index(value, dock)

\* <StyleColor as TryFrom<u32>>::try_from.
TryFrom_u32(value, dock, bits) == TryFrom_usize(u32_as_usize(value, bits), dock, bits)

\* Argument values far from COUNT: around the u8 and u16 limits and the
\* largest value the checker's integers hold.
LargeValues == {255, 256, 65535, 65536, 2147483647}

\* The integer arguments the conversions are applied to.
Values(dock, bits) == (0 .. COUNT(dock, bits) + ExtraValues) \cup LargeValues

\* The arms of the match in StyleColor::name, as pattern and string, in the
\* order they are written; the docking arms are feature-gated.
name_arms(dock) ==
    <<<<"Text", "Text">>, <<"TextDisabled", "TextDisabled">>,
       <<"WindowBg", "WindowBg">>, <<"ChildBg", "ChildBg">>,
       <<"PopupBg", "PopupBg">>, <<"Border", "Border">>,
       <<"BorderShadow", "BorderShadow">>, <<"FrameBg", "FrameBg">>,
       <<"FrameBgHovered", "FrameBgHovered">>,
       <<"FrameBgActive", "FrameBgActive">>, <<"TitleBg", "TitleBg">>,
       <<"TitleBgActive", "TitleBgActive">>,
       <<"TitleBgCollapsed", "TitleBgCollapsed">>,
       <<"MenuBarBg", "MenuBarBg">>, <<"ScrollbarBg", "ScrollbarBg">>,
       <<"ScrollbarGrab", "ScrollbarGrab">>,
       <<"ScrollbarGrabHovered", "ScrollbarGrabHovered">>,
       <<"ScrollbarGrabActive", "ScrollbarGrabActive">>,
       <<"CheckMark", "CheckMark">>, <<"SliderGrab", "SliderGrab">>,
       <<"SliderGrabActive", "SliderGrabActive">>, <<"Button", "Button">>,
       <<"ButtonHovered", "ButtonHovered">>,
       <<"ButtonActive", "ButtonActive">>, <<"Header", "Header">>,
       <<"HeaderHovered", "HeaderHovered">>,
       <<"HeaderActive", "HeaderActive">>, <<"Separator", "Separator">>,
       <<"SeparatorHovered", "SeparatorHovered">>,
       <<"SeparatorActive", "SeparatorActive">>,
       <<"ResizeGrip", "ResizeGrip">>,
       <<"ResizeGripHovered", "ResizeGripHovered">>,
       <<"ResizeGripActive", "ResizeGripActive">>, <<"Tab", "Tab">>,
       <<"TabHovered", "TabHovered">>, <<"TabSelected", "TabSelected">>,
       <<"TabDimmed", "TabDimmed">>,
       <<"TabDimmedSelected", "TabDimmedSelected">>,
       <<"PlotLines", "PlotLines">>,
       <<"PlotLinesHovered", "PlotLinesHovered">>,
       <<"PlotHistogram", "PlotHistogram">>,
       <<"PlotHistogramHovered", "PlotHistogramHovered">>,
       <<"TableHeaderBg", "TableHeaderBg">>,
       <<"TableBorderStrong", "TableBorderStrong">>,
       <<"TableBorderLight", "TableBorderLight">>,
       <<"TableRowBg", "TableRowBg">>,
       <<"TableRowBgAlt", "TableRowBgAlt">>,
       <<"TextSelectedBg", "TextSelectedBg">>,
       <<"DragDropTarget", "DragDropTarget">>,
       <<"NavCursor", "NavCursor">>,
       <<"NavWindowingHighlight", "NavWindowingHighlight">>,
       <<"NavWindowingDimBg", "NavWindowingDimBg">>,
       <<"ModalWindowDimBg", "ModalWindowDimBg">> >>
    \o (IF dock THEN <<<<"DockingPreview", "DockingPreview">>,
           <<"DockingEmptyBg", "DockingEmptyBg">> >> ELSE << >>)
    \o
    <<<<"TabSelectedOverline", "TabSelectedOverline">>,
       <<"TabDimmedSelectedOverline", "TabDimmedSelectedOverline">>,
       <<"TextLink", "TextLink">> >>

\* name() as it read before the native library renamed NavHighlight to
\* NavCursor.
name_stale(self, dock) ==
    IF self = "NavCursor" THEN "NavHighlight"
    ELSE LET arm == CHOOSE i \in 1 .. Len(name_arms(dock)) : name_arms(dock)[i][1] = self
         IN  name_arms(dock)[arm][2]

\* StyleColor::name(&self): the string of the arm that matches self.
name(self, dock) ==
    LET arm == CHOOSE i \in 1 .. Len(name_arms(dock)) : name_arms(dock)[i][1] = self
    IN  name_arms(dock)[arm][2]

\* `v as i32` for a u32 v: the same bits read as two's complement.
u32_as_i32(v) == IF v <= 2147483647 THEN v ELSE (v - 2147483647) - 2147483647 - 2

\* sys::igGetStyleColorName(idx): the native library's name of the colour
\* with value idx, "Unknown" for any other value.
igGetStyleColorName(idx, dock) ==
    IF idx >= 0 /\ idx < Len(ImGuiCol_(dock)) THEN ImGuiCol_(dock)[idx + 1]
    ELSE "Unknown"

\* The values of type [f32; 4] the model tells apart: the entry a palette
\* has for a variant, the default value, and two colours a user assigns.
PaletteColor(palette, c) == [palette |-> palette, of |-> c]
DefaultColor == [palette |-> "Default::default()", of |-> "none"]
UserColors == {PaletteColor("user", "v1"), PaletteColor("user", "v2")}

\* StyleColor::dark_colors(): an array of COUNT default values in which
\* the entry at `c as usize` is then assigned for every variant c.
dark_colors(dock, bits) ==
    [i \in 1 .. COUNT(dock, bits) |->
        IF \E c \in StyleColor(dock) : StyleColor_as_usize(c, dock, bits) = i - 1
        THEN PaletteColor("dark",
                 CHOOSE c \in StyleColor(dock) :
                     StyleColor_as_usize(c, dock, bits) = i - 1)
        ELSE DefaultColor]

\* Style::default(): of the fields other than colors the model keeps the
\* first one and the one that follows colors.
Style_default(dock, bits) ==
    [alpha |-> "1.0",
     colors |-> dark_colors(dock, bits),
     hover_stationary_delay |-> "0.15"]

\* self.colors[i] of an array: the bounds check of array indexing.
InBounds(colors, i) == i < Len(colors)

\* style[c] = v with index_mut handing out a reference to a copy of the
\* entry: the assignment is lost.
Style_index_mut_assign_copy(self, index, v, dock, bits) ==
    LET i == StyleColor_as_usize(index, dock, bits)
    IN  [panic |-> ~InBounds(self.colors, i), style |-> self]

\* style[c] = v through <Style as IndexMut<StyleColor>>::index_mut:
\* &mut self.colors[index as usize], then the store through the reference.
Style_index_mut_assign(self, index, v, dock, bits) ==
    LET i == StyleColor_as_usize(index, dock, bits)
    IN  IF InBounds(self.colors, i)
        THEN [panic |-> FALSE, style |-> [self EXCEPT !.colors[i + 1] = v]]
        ELSE [panic |-> TRUE, style |-> self]

\* style[c] through <Style as Index<StyleColor>>::index:
\* &self.colors[index as usize].
Style_index(self, index, dock, bits) ==
    LET i == StyleColor_as_usize(index, dock, bits)
    IN  IF InBounds(self.colors, i)
        THEN [panic |-> FALSE, value |-> self.colors[i + 1]]
        ELSE [panic |-> TRUE, value |-> DefaultColor]

\* No StyleColor operation has run yet and the style is Style::default().
StyleIdle ==
    /\ styleOp = "none"
    /\ styleValue = 0
    /\ styleResult = Err(InvalidStyleColorValue)
    /\ styleCast = 0
    /\ styleNative = "none"
    /\ style = Style_default(docking, usizeBits)
    /\ lastIndex = [op |-> "none", index |-> "Text", v |-> DefaultColor,
                    panicked |-> FALSE]
    /\ writes = 0
    /\ layout = [measured |-> FALSE,
                 rust |-> [size |-> 0, align |-> 0],
                 native |-> [size |-> 0, align |-> 0]]

\* The default build: no docking, a 64-bit target.
StyleDefaultBuild ==
    /\ docking = FALSE
    /\ usizeBits = 64
    /\ StyleIdle

\* Every build: with or without docking, on a 32-bit or a 64-bit target.
StyleStart ==
    /\ docking \in BOOLEAN
    /\ usizeBits \in {32, 64}
    /\ StyleIdle

----------------------------------------------------------------------------
(* The registry as a state machine *)

\* prevSame when the call before was another operation or another handle.
NoCall == "NoCall"

\* The result of the last call if it was operation op on handle id.
SameAsLast(op, id) ==
    IF last.op = op /\ last.id = id /\ ~last.panicked THEN last.ret ELSE NoCall

\* The set of elements of a sequence.
Range(s) == {s[i] : i \in 1 .. Len(s)}

\* A registry fresh from Textures::new, in either build profile.
TexturesStart ==
    /\ textures = Textures_new.textures
    /\ next = Textures_new.next
    /\ overflowChecks \in BOOLEAN
    /\ issued = << >>
    /\ stored = {}
    /\ pinned = [k \in U64 |-> {}]
    /\ last = [op |-> "new", id |-> TextureId_new(0), res |-> None,
               ret |-> None, old |-> None, panicked |-> FALSE]
    /\ prevSame = NoCall

Init == TexturesStart /\ ImeStart /\ StyleDefaultBuild

\* A call of insert(texture).
Insert(texture) ==
    /\ Len(issued) < U64_MAX + 1 + InsertsPastWrap
    /\ LET r == insert(textures, next, overflowChecks, texture)
       IN  /\ textures' = r.textures
           /\ next' = r.next
           /\ issued' = IF r.panicked THEN issued ELSE Append(issued, r.ret)
           /\ stored' = stored \cup {next}
           /\ pinned' = IF r.panicked THEN pinned
                        ELSE [pinned EXCEPT ![r.ret.id] = @ \cup {texture}]
           /\ last' = [op |-> "insert", id |-> r.ret, res |-> texture,
                       ret |-> None, old |-> r.old, panicked |-> r.panicked]
           /\ prevSame' = NoCall
    /\ UNCHANGED <<overflowChecks, imeVars, styleVars>>

\* A call of replace(id, texture).
Replace(id, texture) ==
    /\ LET r == replace(textures, next, id, texture)
       IN  /\ textures' = r.textures
           /\ next' = r.next
           /\ last' = [op |-> "replace", id |-> id, res |-> texture,
                       ret |-> r.ret, old |-> textures[id.id], panicked |-> FALSE]
    /\ stored' = stored \cup {id.id}
    /\ pinned' = [pinned EXCEPT ![id.id] = {}]
    /\ prevSame' = SameAsLast("replace", id)
    /\ UNCHANGED <<overflowChecks, issued, imeVars, styleVars>>

\* A call of remove(id).
Remove(id) ==
    /\ LET r == remove(textures, next, id)
       IN  /\ textures' = r.textures
           /\ next' = r.next
           /\ last' = [op |-> "remove", id |-> id, res |-> None,
                       ret |-> r.ret, old |-> textures[id.id], panicked |-> FALSE]
    /\ pinned' = [pinned EXCEPT ![id.id] = {}]
    /\ prevSame' = SameAsLast("remove", id)
    /\ UNCHANGED <<overflowChecks, issued, stored, imeVars, styleVars>>

\* A call of get(id).
Get(id) ==
    /\ last' = [op |-> "get", id |-> id, res |-> None,
                ret |-> get(textures, id), old |-> textures[id.id],
                panicked |-> FALSE]
    /\ prevSame' = SameAsLast("get", id)
    /\ UNCHANGED <<textures, next, overflowChecks, issued, stored, pinned, imeVars, styleVars>>

\* A call of get_mut(id).
GetMut(id) ==
    /\ last' = [op |-> "get_mut", id |-> id, res |-> None,
                ret |-> get_mut(textures, id), old |-> textures[id.id],
                panicked |-> FALSE]
    /\ prevSame' = SameAsLast("get_mut", id)
    /\ UNCHANGED <<textures, next, overflowChecks, issued, stored, pinned, imeVars, styleVars>>

Next ==
    \/ \E texture \in Resources : Insert(texture)
    \/ \E id \in TextureIds, texture \in Resources : Replace(id, texture)
    \/ \E id \in TextureIds : Remove(id)
    \/ \E id \in TextureIds : Get(id)
    \/ \E id \in TextureIds : GetMut(id)

Spec == Init /\ [][Next]_vars

----------------------------------------------------------------------------
(* The IME shim as a state machine *)

\* The native library fires the callback: set_ime_data is entered with a
\* viewport and a data pointer.
Fire(viewport, data_ptr) ==
    /\ pc = "native"
    /\ process = "running"
    /\ fired < MaxCallbacks
    /\ fired' = fired + 1
    /\ frame' = [viewport |-> viewport, data_ptr |-> data_ptr,
                 data |-> frame.data, ctx |-> frame.ctx, lookups |-> 0,
                 read |-> FALSE, dispatched |-> FALSE, unwound |-> FALSE]
    /\ pc' = "read"
    /\ UNCHANGED <<Platform_ImeUserData, contexts, process, stderr, effects,
                   calls, returns, imeOp, vars, styleVars>>

\* Line 61, inside catch_unwind: the data argument is read.
ReadStep ==
    /\ pc = "read"
    /\ LET r == ReadImeData(frame.data_ptr)
       IN  IF r.panic
           THEN /\ frame' = [frame EXCEPT !.unwound = TRUE]
                /\ pc' = "caught"
           ELSE /\ frame' = [frame EXCEPT !.data = r.data, !.read = TRUE]
                /\ pc' = "lookup"
    /\ UNCHANGED <<Platform_ImeUserData, contexts, process, stderr, effects,
                   calls, fired, returns, imeOp, vars, styleVars>>

\* Lines 63-64: the installed context is read from the slot.
LookupStep ==
    /\ pc = "lookup"
    /\ frame' = [frame EXCEPT !.ctx = LookupContext(Platform_ImeUserData, contexts),
                              !.lookups = @ + 1]
    /\ pc' = "dispatch"
    /\ UNCHANGED <<Platform_ImeUserData, contexts, process, stderr, effects,
                   calls, fired, returns, imeOp, vars, styleVars>>

\* Lines 66-67: the backend of the context is called; it returns or unwinds
\* into catch_unwind.
DispatchStep ==
    /\ pc = "dispatch"
    /\ \E behaviour \in Behaviours(contexts, frame.ctx) :
          IF behaviour = "crash"
          THEN /\ process' = "crashed"
               /\ pc' = "dead"
               /\ UNCHANGED <<frame, effects, calls>>
          ELSE LET r == Dispatch(contexts, frame.ctx, behaviour, effects,
                                 frame.viewport, frame.data)
               IN  /\ effects' = r.effects
                   /\ calls' = Append(calls,
                          [ctx |-> frame.ctx, newest |-> Len(contexts),
                           backend |-> contexts[frame.ctx].backend,
                           live |-> contexts[frame.ctx].live,
                           viewport |-> frame.viewport, data |-> frame.data,
                           panic |-> r.panic, fire |-> fired])
                   /\ frame' = [frame EXCEPT !.dispatched = TRUE,
                                             !.unwound = r.panic]
                   /\ pc' = "caught"
                   /\ UNCHANGED process
    /\ UNCHANGED <<Platform_ImeUserData, contexts, stderr, fired, returns,
                   imeOp, vars, styleVars>>

\* Line 69: catch_unwind has returned; the trampoline returns to the native
\* caller or goes on to the diagnostic.
CatchStep ==
    /\ pc = "caught"
    /\ IF AfterCatch(frame.unwound) = "return"
       THEN /\ pc' = "native"
            /\ returns' = returns + 1
       ELSE /\ pc' = AfterCatch(frame.unwound)
            /\ UNCHANGED returns
    /\ UNCHANGED <<Platform_ImeUserData, contexts, frame, process, stderr,
                   effects, calls, fired, imeOp, vars, styleVars>>

\* Line 70: eprintln!.
DiagnoseStep ==
    /\ pc = "diagnose"
    /\ stderr' = Append(stderr, Diagnostic)
    /\ pc' = "abort"
    /\ UNCHANGED <<Platform_ImeUserData, contexts, frame, process, effects,
                   calls, fired, returns, imeOp, vars, styleVars>>

\* Line 71: process::abort().
AbortStep ==
    /\ pc = "abort"
    /\ process' = "aborted"
    /\ pc' = "dead"
    /\ UNCHANGED <<Platform_ImeUserData, contexts, frame, stderr, effects,
                   calls, fired, returns, imeOp, vars, styleVars>>

\* A backend installs itself between frames: a context is made with
\* ImeDataContext::new, the slot is pointed at it and the context the slot
\* held is released.
Install(backend) ==
    /\ pc = "native"
    /\ process = "running"
    /\ Len(contexts) < MaxContexts
    /\ LET r == InstallContext(contexts, Platform_ImeUserData,
                               ImeDataContext_new(backend))
       IN  /\ contexts' = r.contexts
           /\ Platform_ImeUserData' = r.slot
    /\ imeOp' = "install"
    /\ UNCHANGED <<pc, frame, process, stderr, effects, calls, fired, returns,
                   vars, styleVars>>

\* The backend shuts down between frames: its context is released and the
\* slot is reset to a dummy context.
Shutdown ==
    /\ pc = "native"
    /\ process = "running"
    /\ Len(contexts) < MaxContexts
    /\ contexts[Platform_ImeUserData].backend # Dummy
    /\ LET r == InstallContext(contexts, Platform_ImeUserData,
                               ImeDataContext_dummy)
       IN  /\ contexts' = r.contexts
           /\ Platform_ImeUserData' = r.slot
    /\ imeOp' = "shutdown"
    /\ UNCHANGED <<pc, frame, process, stderr, effects, calls, fired, returns,
                   vars, styleVars>>

\* The steps of a running set_ime_data.
Trampoline ==
    ReadStep \/ LookupStep \/ DispatchStep \/ CatchStep \/ DiagnoseStep
        \/ AbortStep

ImeNext ==
    \/ \E viewport \in Viewports, data_ptr \in DataPtrs : Fire(viewport, data_ptr)
    \/ ReadStep
    \/ LookupStep
    \/ DispatchStep
    \/ CatchStep
    \/ DiagnoseStep
    \/ AbortStep
    \/ \E backend \in UserBackends : Install(backend)
    \/ Shutdown

allVars == <<vars, imeVars, styleVars>>

SpecIme == Init /\ [][ImeNext]_allVars

\* Once entered, set_ime_data runs on to its return or to the abort.
SpecImeFair == SpecIme /\ WF_allVars(Trampoline)

----------------------------------------------------------------------------
(* The IME shim with installations that are not serialized with callbacks *)

\* Another thread installs a backend while set_ime_data is running: the
\* slot is pointed at the new context and the context it held is released.
InstallFromOtherThread(backend) ==
    /\ pc \in {"read", "lookup", "dispatch", "caught"}
    /\ process = "running"
    /\ Len(contexts) < MaxContexts
    /\ LET r == InstallContext(contexts, Platform_ImeUserData,
                               ImeDataContext_new(backend))
       IN  /\ contexts' = r.contexts
           /\ Platform_ImeUserData' = r.slot
    /\ imeOp' = "install from another thread"
    /\ UNCHANGED <<pc, frame, process, stderr, effects, calls, fired, returns,
                   vars, styleVars>>

\* The handler that set_ime_data has just called installs a backend as
\* the first thing it does: the context it belongs to is released while
\* the rest of the handler is still to run.
InstallFromHandler(backend) ==
    /\ pc = "dispatch"
    /\ process = "running"
    /\ Len(contexts) < MaxContexts
    /\ contexts[frame.ctx].live
    /\ contexts[frame.ctx].backend \in UserBackends
    /\ LET r == InstallContext(contexts, Platform_ImeUserData,
                               ImeDataContext_new(backend))
       IN  /\ contexts' = r.contexts
           /\ Platform_ImeUserData' = r.slot
    /\ imeOp' = "install from the handler"
    /\ UNCHANGED <<pc, frame, process, stderr, effects, calls, fired, returns,
                   vars, styleVars>>

ImeRaceNext ==
    \/ ImeNext
    \/ \E backend \in UserBackends : InstallFromOtherThread(backend)
    \/ \E backend \in UserBackends : InstallFromHandler(backend)

SpecImeRace == Init /\ [][ImeRaceNext]_allVars

----------------------------------------------------------------------------
(* StyleColor as a state machine *)

\* A call of StyleColor::try_from(value) with a usize.
TryFromUsize(value) ==
    /\ LET r == TryFrom_usize(value, docking, usizeBits)
       IN  /\ styleResult' = r
           /\ styleCast' = IF r.ok THEN StyleColor_as_usize(r.value, docking, usizeBits)
                           ELSE 0
    /\ styleOp' = "try_from_usize"
    /\ styleValue' = value
    /\ styleNative' = "none"
    /\ UNCHANGED <<docking, usizeBits, indexVars, layout, vars, imeVars>>

\* A call of StyleColor::try_from(value) with a u32.
TryFromU32(value) ==
    /\ LET r == TryFrom_u32(value, docking, usizeBits)
       IN  /\ styleResult' = r
           /\ styleCast' = IF r.ok THEN StyleColor_as_usize(r.value, docking, usizeBits)
                           ELSE 0
    /\ styleOp' = "try_from_u32"
    /\ styleValue' = value
    /\ styleNative' = "none"
    /\ UNCHANGED <<docking, usizeBits, indexVars, layout, vars, imeVars>>

\* One step of iterating VARIANTS: the entry at idx and its `as usize`.
VariantAsUsize(idx) ==
    /\ idx < Len(VARIANTS(docking))
    /\ styleResult' = Ok(VARIANTS(docking)[idx + 1])
    /\ styleCast' = StyleColor_as_usize(VARIANTS(docking)[idx + 1], docking, usizeBits)
    /\ styleOp' = "variant_as_usize"
    /\ styleValue' = idx
    /\ styleNative' = "none"
    /\ UNCHANGED <<docking, usizeBits, indexVars, layout, vars, imeVars>>

\* One step of iterating VARIANTS: the name of the entry at idx, and the
\* name the native library gives for `entry as i32`.
VariantName(idx) ==
    /\ idx < Len(VARIANTS(docking))
    /\ LET entry == VARIANTS(docking)[idx + 1]
       IN  /\ styleResult' = Ok(name(entry, docking))
           /\ styleNative' = igGetStyleColorName(
                                 u32_as_i32(Discriminant(entry, docking)), docking)
           /\ styleCast' = StyleColor_as_usize(entry, docking, usizeBits)
    /\ styleOp' = "variant_name"
    /\ styleValue' = idx
    /\ UNCHANGED <<docking, usizeBits, indexVars, layout, vars, imeVars>>

\* test_texture_id_memory_layout: size_of and align_of of TextureId and of
\* sys::ImTextureID on the target the build is for.
TextureIdMemoryLayout(align) ==
    /\ ~layout.measured
    /\ layout' = [measured |-> TRUE,
                  rust |-> TextureId_layout(usizeBits, align),
                  native |-> sys_ImTextureID_layout(usizeBits, align)]
    /\ UNCHANGED <<docking, usizeBits, styleOp, styleValue, styleResult,
                   styleCast, styleNative, indexVars, vars, imeVars>>

StyleNext ==
    \/ \E align \in U64Aligns(usizeBits) : TextureIdMemoryLayout(align)
    \/ \E idx \in 0 .. Len(VARIANTS(docking)) - 1 : VariantName(idx)
    \/ \E value \in Values(docking, usizeBits) : TryFromUsize(value)
    \/ \E value \in Values(docking, usizeBits) : TryFromU32(value)
    \/ \E idx \in 0 .. Len(VARIANTS(docking)) - 1 : VariantAsUsize(idx)

StyleInit == TexturesStart /\ ImeStart /\ StyleStart

SpecStyle == StyleInit /\ [][StyleNext]_allVars

----------------------------------------------------------------------------
(* Style indexed by StyleColor, as a state machine *)

\* The assignment style[index] = v.
IndexMutAssign(index, v) ==
    /\ writes < MaxWrites
    /\ LET r == Style_index_mut_assign(style, index, v, docking, usizeBits)
       IN  /\ style' = r.style
           /\ lastIndex' = [op |-> "index_mut", index |-> index, v |-> v,
                            panicked |-> r.panic]
    /\ writes' = writes + 1
    /\ UNCHANGED <<docking, usizeBits, styleOp, styleValue, styleResult,
                   styleCast, styleNative, layout, vars, imeVars>>

StyleIndexNext ==
    \E index \in StyleColor(docking), v \in UserColors : IndexMutAssign(index, v)

SpecStyleIndex == StyleInit /\ [][StyleIndexNext]_allVars

----------------------------------------------------------------------------
(* Properties of the texture registry *)

\* The u64 behind a handle that the last call was about.
LastKey == TextureId_id(last.id)

\* The last call was operation op and returned normally.
Returned(op) == last.op = op /\ ~last.panicked

\* C1: the handles insert has returned are pairwise distinct and strictly
\* increasing in the order they were issued, and the first one is 0.
C1_HandlesStrictlyIncreasing ==
    /\ Len(issued) > 0 => TextureId_id(issued[1]) = 0
    /\ \A i, j \in 1 .. Len(issued) :
          i < j => TextureId_id(issued[i]) < TextureId_id(issued[j])

\* C2: the handle insert returns was bound to no resource immediately before
\* the call, so insert never rebinds a live handle.
C2_InsertReturnsUnboundHandle ==
    Returned("insert") => last.old = None

\* C3: a resource x that insert bound to handle h is what get(h) returns for
\* as long as neither remove(h) nor replace(h, _) has been called.
C3_InsertedStaysReadable ==
    \A h \in U64 : \A x \in pinned[h] : get(textures, TextureId_new(h)) = x

\* C4 as stated: for every handle that no insert call has returned yet,
\* get and remove return not found.
C4_UnissuedNotFound ==
    \A id \in TextureIds :
        id \notin Range(issued) =>
            /\ get(textures, id) = None
            /\ remove(textures, next, id).ret = None

\* C4 amended: for every handle that insert has not assigned and replace has
\* not been applied to, get and remove return not found.
C4_NeverStoredNotFound ==
    \A id \in TextureIds :
        TextureId_id(id) \notin stored =>
            /\ get(textures, id) = None
            /\ remove(textures, next, id).ret = None

\* A lookup of a never stored handle came back not found while another
\* handle that insert never issued is bound through replace.
C4_Witness ==
    /\ last.op \in {"get", "remove"}
    /\ LastKey \notin stored
    /\ last.ret = None
    /\ \E k \in stored : TextureId_new(k) \notin Range(issued) /\ textures[k] # None

\* C5: replace(h, y) on a handle bound to x returns x, and afterwards get(h)
\* returns y, the one resource bound to h.
C5_ReplaceBoundSwaps ==
    (last.op = "replace" /\ last.old # None) =>
        /\ last.ret = last.old
        /\ get(textures, last.id) = last.res
        /\ last.res \in Resources

\* replace(h, y) has just swapped y in for a different resource x.
C5_Witness ==
    /\ last.op = "replace"
    /\ last.old \in Resources
    /\ last.res # last.old
    /\ last.ret = last.old
    /\ get(textures, last.id) = last.res

\* C6: replace(h, y) on an unbound handle binds h to y and returns nothing;
\* bound or unbound, replace leaves the counter and the binding of every
\* other handle unchanged.
C6_ReplaceFrame ==
    [][last'.op = "replace" =>
          LET h == TextureId_id(last'.id)
          IN  /\ textures[h] = None =>
                    (last'.ret = None /\ textures'[h] = last'.res)
              /\ next' = next
              /\ \A g \in U64 \ {h} : textures'[g] = textures[g]]_vars

\* replace has just bound a handle that was unbound and that insert never
\* issued, while another handle holds a resource.
C6_Witness ==
    /\ last.op = "replace"
    /\ last.old = None
    /\ last.ret = None
    /\ textures[LastKey] = last.res
    /\ last.id \notin Range(issued)
    /\ \E g \in U64 \ {LastKey} : textures[g] # None

\* C7: remove(h) on a bound handle returns the bound resource and unbinds h;
\* a remove(h) directly after a remove(h) returns not found and changes
\* neither the bindings nor the counter.
C7_RemoveTwice ==
    [][last'.op = "remove" =>
          LET h == TextureId_id(last'.id)
          IN  /\ textures[h] # None =>
                    (last'.ret = textures[h] /\ textures'[h] = None)
              /\ (last.op = "remove" /\ last.id = last'.id) =>
                    /\ last'.ret = None
                    /\ textures' = textures
                    /\ next' = next]_vars

\* A remove(h) has returned not found directly after a remove(h) that
\* returned a resource.
C7_Witness ==
    /\ last.op = "remove"
    /\ prevSame \in Resources
    /\ last.ret = None
    /\ textures[LastKey] = None

\* C8: each insert advances the counter by exactly one, no other operation
\* changes it, and insert never issues a handle it has issued before.
C8_CounterNeverReissues ==
    [][/\ last'.op = "insert" =>
              /\ next' = next + 1
              /\ last'.id \notin Range(issued)
       /\ last'.op # "insert" => next' = next]_vars

\* C9: insert never fails: it returns a handle, the resource is bound to
\* that handle, and the counter has not wrapped to an issued value.
C9_InsertNeverFails ==
    last.op = "insert" =>
        /\ ~last.panicked
        /\ get(textures, last.id) = last.res
        /\ TextureId_new(next) \notin Range(issued)

\* C10: remove(h) leaves get(g) unchanged for every handle g other than h.
C10_RemoveAffectsOnlyItsHandle ==
    [][last'.op = "remove" =>
          \A g \in TextureIds \ {last'.id} :
              get(textures', g) = get(textures, g)]_vars

\* insert A -> 0, insert B -> 1, remove(0) returned A; get(0) is not found
\* and get(1) is B.
C10_Witness ==
    /\ issued = <<TextureId_new(0), TextureId_new(1)>>
    /\ last.op = "remove"
    /\ last.id = TextureId_new(0)
    /\ last.ret = "A"
    /\ get(textures, TextureId_new(0)) = None
    /\ get(textures, TextureId_new(1)) = "B"

\* C11: get, get_mut and remove on a handle that is unbound return not
\* found without faulting and leave the bindings and the counter as they
\* were.
C11_AbsentLookupIsNoOp ==
    [][(last'.op \in {"get", "get_mut", "remove"}
          /\ textures[TextureId_id(last'.id)] = None) =>
              /\ last'.ret = None
              /\ ~last'.panicked
              /\ textures' = textures
              /\ next' = next]_vars

\* get_mut on a handle at or above the counter that was never stored under
\* came back not found while another handle is bound.
C11_Witness ==
    /\ last.op = "get_mut"
    /\ last.ret = None
    /\ LastKey >= next
    /\ LastKey \notin stored
    /\ \E g \in U64 : textures[g] # None

----------------------------------------------------------------------------
(* Properties of the IME shim *)

\* Positions at which a panic of this callback has been caught.
AfterFault == {"caught", "diagnose", "abort", "dead"}

\* The backend of the context the slot holds.
InstalledBackend == contexts[Platform_ImeUserData].backend

\* The state of the dispatch.
DispatchState ==
    IF InstalledBackend = Dummy THEN "dummy installed" ELSE "backend installed"

\* The running callback was given a pointer to a PlatformImeData.
ValidData == ~frame.data_ptr.null

\* C12: a fault raised by the installed handler is never observed by the
\* native caller: the callback neither returns to it nor unwinds into it,
\* and no further callback is fired; the thread ends in the abort.
C12_HandlerFaultNeverReachesNative ==
    \A i \in 1 .. Len(calls) :
        calls[i].panic =>
            /\ pc \in AfterFault
            /\ returns < calls[i].fire
            /\ fired = calls[i].fire
            /\ process = "running" => pc # "dead"
            /\ process # "running" => process = "aborted"

\* A user handler raised a fault and the process was aborted.
C12_Witness ==
    /\ \E i \in 1 .. Len(calls) :
          calls[i].panic /\ calls[i].backend \in UserBackends
    /\ process = "aborted"
    /\ returns < fired

\* C13: when a fault is contained the diagnostic is on standard error before
\* the process terminates, no handler is invoked and no callback is fired
\* after the fault, and the termination always follows.
C13_ContainedFaultAborts ==
    /\ [](process = "aborted" => stderr = <<Diagnostic>>)
    /\ [][(frame.unwound /\ pc \in AfterFault) =>
              (calls' = calls /\ fired' = fired /\ effects' = effects
                 /\ pc' \in AfterFault)]_allVars
    /\ (frame.unwound /\ pc = "caught") ~> (process = "aborted")

\* The process was aborted after a contained fault, the diagnostic written.
C13_Witness ==
    /\ frame.unwound
    /\ process = "aborted"
    /\ stderr = <<Diagnostic>>
    /\ pc = "dead"

\* C14: the whole body runs under the containment: a fault raised while the
\* data argument is read (a null pointer) or while the handler runs is
\* caught, and ends in the diagnostic and the abort; with a null data
\* pointer the handler is not invoked.
C14_WholeBodyContained ==
    /\ frame.unwound => pc \in AfterFault
    /\ (frame.unwound /\ pc = "dead") =>
          (process = "aborted" /\ stderr = <<Diagnostic>>)
    /\ (frame.data_ptr.null /\ pc \notin {"native", "read"}) =>
          /\ frame.unwound
          /\ ~frame.dispatched
          /\ \A i \in 1 .. Len(calls) : calls[i].fire # fired

\* A callback with a null data pointer ended in the diagnostic and the abort
\* with no handler invoked for it.
C14_Witness ==
    /\ fired > 0
    /\ frame.data_ptr.null
    /\ pc = "dead"
    /\ process = "aborted"
    /\ stderr = <<Diagnostic>>
    /\ \A i \in 1 .. Len(calls) : calls[i].fire # fired

\* C15: while the dummy context is installed a callback with valid data has
\* no effect: nothing a handler does, no fault, no diagnostic, no
\* termination, and the callback returns to the native caller.
C15_DummyCallbackHasNoEffect ==
    [][(DispatchState = "dummy installed" /\ ValidData
          /\ pc \in {"read", "lookup", "dispatch", "caught"}) =>
              /\ effects' = effects
              /\ stderr' = stderr
              /\ process' = "running"
              /\ ~frame'.unwound
              /\ pc' \notin {"diagnose", "abort", "dead"}
              /\ pc = "caught" => (pc' = "native" /\ returns' = returns + 1)]_allVars

\* Two callbacks were dispatched to the dummy and returned, and nothing
\* else has happened.
C15_Witness ==
    /\ Len(calls) >= 2
    /\ \A i \in 1 .. Len(calls) : calls[i].backend = Dummy /\ ~calls[i].panic
    /\ returns = fired
    /\ pc = "native"
    /\ effects = << >>
    /\ stderr = << >>
    /\ process = "running"

\* C16: every callback dispatches to the handler of the context installed
\* most recently before it, so a handler that was replaced is never invoked
\* by a later callback.
C16_DispatchesToNewestContext ==
    \A i \in 1 .. Len(calls) :
        /\ calls[i].ctx = calls[i].newest
        /\ calls[i].backend = contexts[calls[i].newest].backend
        /\ \A j \in 1 .. Len(calls) :
              (i < j /\ calls[j].ctx # calls[i].ctx) =>
                  \A k \in j .. Len(calls) : calls[k].ctx # calls[i].ctx

\* H1 was invoked with one data value, H2 replaced it and was invoked with
\* the other data value.
C16_Witness ==
    /\ Len(calls) = 2
    /\ calls[1].backend = "H1"
    /\ calls[2].backend = "H2"
    /\ calls[1].data # calls[2].data
    /\ Len(effects) = 2
    /\ effects[2].backend = "H2"
    /\ effects[2].data = calls[2].data

C18_TwoStateDispatch ==
    /\ [](/\ imeOp = "create" => DispatchState = "dummy installed"
          /\ imeOp = "install" => DispatchState = "backend installed"
          /\ \A c \in 1 .. Len(contexts) :
                contexts[c].backend \in UserBackends \cup {Dummy})
    /\ [][(DispatchState = "backend installed"
             /\ DispatchState' = "dummy installed") =>
                ~contexts'[Platform_ImeUserData].live]_allVars

\* A backend is installed and a callback has been dispatched to it.
C18_Witness ==
    /\ imeOp = "install"
    /\ DispatchState = "backend installed"
    /\ Len(calls) > 0
    /\ calls[Len(calls)].backend = InstalledBackend


----------------------------------------------------------------------------
(* Properties of StyleColor *)

\* C19: VARIANTS lists every variant of the build exactly once and in
\* discriminant order: it has COUNT entries, its entries are the variants
\* of the enum without repetition, and the entry at index i, cast with
\* `as usize`, is i.
C19_VariantsInDiscriminantOrder ==
    /\ Len(VARIANTS(docking)) = COUNT(docking, usizeBits)
    /\ Range(VARIANTS(docking)) = StyleColor(docking)
    /\ Cardinality(Range(VARIANTS(docking))) = Len(VARIANTS(docking))
    /\ styleOp = "variant_as_usize" => styleCast = styleValue

\* The last entry of VARIANTS, behind the docking entries, has been cast.
C19_Witness ==
    /\ styleOp = "variant_as_usize"
    /\ docking
    /\ styleValue = COUNT(docking, usizeBits) - 1
    /\ styleResult = Ok("ModalWindowDimBg")

\* C20: try_from on a usize or a u32 returns InvalidStyleColorValue for
\* every value at or above COUNT and otherwise the variant whose
\* discriminant is the value; try_from(c as usize) is Ok(c) for every
\* variant c; and the two conversions agree on every argument.
C20_TryFromChecksRange ==
    /\ styleOp \in {"try_from_usize", "try_from_u32"} =>
          IF styleValue >= COUNT(docking, usizeBits)
          THEN styleResult = Err(InvalidStyleColorValue)
          ELSE /\ styleResult.ok
               /\ styleResult.value \in StyleColor(docking)
               /\ Discriminant(styleResult.value, docking) = styleValue
    /\ \A c \in StyleColor(docking) :
          TryFrom_usize(StyleColor_as_usize(c, docking, usizeBits),
                        docking, usizeBits) = Ok(c)
    /\ \A value \in Values(docking, usizeBits) :
          TryFrom_u32(value, docking, usizeBits)
              = TryFrom_usize(value, docking, usizeBits)

\* The u32 conversion has rejected COUNT itself, in the docking build.
C20_Witness ==
    /\ styleOp = "try_from_u32"
    /\ docking
    /\ styleValue = COUNT(docking, usizeBits)
    /\ styleResult = Err(InvalidStyleColorValue)


\* C21: indexing a Style by a StyleColor aliases the colors array: after
\* style[c] = v both style[c] and style.colors[c as usize] are v, the entry
\* of every other StyleColor and every field that is not a colour are as
\* before, and `c as usize` is within the bounds of colors for every c.
C21_IndexAliasesColors ==
    /\ [](\A c \in StyleColor(docking) :
              /\ InBounds(style.colors, StyleColor_as_usize(c, docking, usizeBits))
              /\ ~Style_index(style, c, docking, usizeBits).panic)
    /\ [][lastIndex' # lastIndex =>
              LET c == lastIndex'.index
                  v == lastIndex'.v
              IN  /\ ~lastIndex'.panicked
                  /\ Style_index(style', c, docking, usizeBits).value = v
                  /\ style'.colors[StyleColor_as_usize(c, docking, usizeBits) + 1] = v
                  /\ \A d \in StyleColor(docking) \ {c} :
                        Style_index(style', d, docking, usizeBits)
                            = Style_index(style, d, docking, usizeBits)
                  /\ Len(style'.colors) = Len(style.colors)
                  /\ style'.alpha = style.alpha
                  /\ style'.hover_stationary_delay
                        = style.hover_stationary_delay]_allVars

\* style[Tab] = v has been assigned (the assignment of
\* test_style_color_indexing) and style[Tab] reads v, every other entry
\* being the palette's.
C21_Witness ==
    /\ lastIndex.op = "index_mut"
    /\ lastIndex.index = "Tab"
    /\ lastIndex.v \in UserColors
    /\ Style_index(style, "Tab", docking, usizeBits).value = lastIndex.v
    /\ Style_index(style, "TabHovered", docking, usizeBits).value
          = PaletteColor("dark", "TabHovered")


\* C22: for every entry of VARIANTS, name() is the name the native library
\* gives the colour of the same index, which is the variant's own
\* identifier; so the names of the variants are pairwise distinct.
C22_NamesMatchNative ==
    /\ styleOp = "variant_name" =>
          /\ styleResult = Ok(styleNative)
          /\ styleResult.value = VARIANTS(docking)[styleValue + 1]
    /\ Cardinality({name(c, docking) : c \in StyleColor(docking)})
          = Cardinality(StyleColor(docking))

\* The name of NavCursor, an entry behind the docking ones, has been
\* compared with the native name.
C22_Witness ==
    /\ styleOp = "variant_name"
    /\ docking
    /\ styleResult = Ok("NavCursor")
    /\ styleNative = "NavCursor"


----------------------------------------------------------------------------
(* Further properties of TextureId and the texture registry *)

\* C23: construction and extraction round-trip: for every value v of the
\* handle type, TextureId::new(v).id() is v and TextureId::from(v) is
\* TextureId::new(v); two TextureIds are equal exactly when their ids are;
\* and the handle a call of insert returns has the id the counter had
\* before the call.
C23_TextureIdRoundTrip ==
    /\ [](/\ \A v \in U64 :
                /\ TextureId_id(TextureId_new(v)) = v
                /\ TextureId_eq(TextureId_from(v), TextureId_new(v))
                /\ TextureId_id(TextureId_from(v)) = v
          /\ \A a, b \in TextureIds :
                TextureId_eq(a, b) <=> TextureId_id(a) = TextureId_id(b))
    /\ [][(last'.op = "insert" /\ ~last'.panicked) =>
              TextureId_id(last'.id) = next]_vars

\* insert has returned the handle with the largest id, the counter's value
\* before that call, after two other handles.
C23_Witness ==
    /\ Returned("insert")
    /\ Len(issued) = U64_MAX + 1
    /\ TextureId_eq(last.id, TextureId_new(U64_MAX))
    /\ issued[Len(issued)] = last.id


----------------------------------------------------------------------------
(* Further properties of the IME shim *)

\* C25: a trampoline invocation that raises no fault reads the slot once
\* and invokes the set_ime_data of the installed handler once, with the
\* viewport of the callback and a copy of the data value the native
\* library pointed to when the callback was entered.
C25_OneLookupOneDispatch ==
    (pc = "caught" /\ ~frame.unwound) =>
        /\ frame.lookups = 1
        /\ Cardinality({i \in 1 .. Len(calls) : calls[i].fire = fired}) = 1
        /\ \A i \in 1 .. Len(calls) :
              calls[i].fire = fired =>
                  /\ calls[i].ctx = Platform_ImeUserData
                  /\ calls[i].backend = InstalledBackend
                  /\ calls[i].viewport = frame.viewport
                  /\ calls[i].data = frame.data_ptr.pointee
                  /\ ~calls[i].panic
        /\ InstalledBackend \in UserBackends =>
              /\ Len(effects) > 0
              /\ effects[Len(effects)] =
                    [backend |-> InstalledBackend, viewport |-> frame.viewport,
                     data |-> frame.data_ptr.pointee]

\* The second callback, for viewport V2 and a visible input, has been
\* handed to the installed user backend and its handler has returned.
C25_Witness ==
    /\ pc = "caught"
    /\ ~frame.unwound
    /\ fired = 2
    /\ frame.viewport = "V2"
    /\ frame.data_ptr.pointee.want_visible
    /\ InstalledBackend \in UserBackends
    /\ Len(calls) = 2
    /\ calls[2].data.want_visible


\* C26: get and get_mut are non-owning lookups: each returns a resource
\* exactly when the handle is bound, get_mut(h) is present exactly when
\* get(h) is and both are the resource bound to h, and a call of either
\* changes neither the bindings nor the counter.
C26_LookupsAreNonOwning ==
    /\ [](\A id \in TextureIds :
              /\ get(textures, id) # None <=> textures[TextureId_id(id)] # None
              /\ get_mut(textures, id) # None <=> get(textures, id) # None
              /\ get(textures, id) = textures[TextureId_id(id)]
              /\ get_mut(textures, id) = textures[TextureId_id(id)])
    /\ [][last'.op \in {"get", "get_mut"} =>
              /\ last'.ret = textures[TextureId_id(last'.id)]
              /\ ~last'.panicked
              /\ textures' = textures
              /\ next' = next]_vars

\* get_mut has returned the resource bound to its handle while another
\* handle is bound to the other resource.
C26_Witness ==
    /\ last.op = "get_mut"
    /\ last.ret \in Resources
    /\ get(textures, last.id) = last.ret
    /\ \E g \in U64 \ {LastKey} : textures[g] \in Resources \ {last.ret}


\* C27: a re-installation made while a callback is in progress, from
\* another thread or from the running handler, never makes that callback
\* execute, or go on executing, a handler whose context has been released.
C27_ReinstallNeverRunsReleasedHandler ==
    /\ \A i \in 1 .. Len(calls) : calls[i].live
    /\ pc = "dispatch" => contexts[frame.ctx].live
    /\ process # "crashed"


\* The number of handles a map binds to resource x.
Holders(t, x) == Cardinality({k \in U64 : t[k] = x})

\* 1 when a is the resource x, 0 otherwise.
IsResource(a, x) == IF a = x THEN 1 ELSE 0

\* C28: no resource is silently discarded: in every call, what the registry
\* holds afterwards together with what the call hands back to the caller is
\* what it held before together with what the call was given, so every
\* resource passed to insert or replace is still bound or was handed back
\* by a remove or a replace.
C28_NoResourceDiscarded ==
    [][\A x \in Resources :
          Holders(textures', x)
              + IsResource(IF last'.op \in {"remove", "replace"}
                           THEN last'.ret ELSE None, x)
            = Holders(textures, x)
              + IsResource(IF last'.op \in {"insert", "replace"}
                           THEN last'.res ELSE None, x)]_vars

\* C29: the shim terminates the process only after a fault was raised in
\* the body of the trampoline; a callback whose handler returns normally
\* writes no diagnostic and returns to the native caller, and the native
\* library can then fire further callbacks, which are dispatched.
C29_AbortsOnlyOnFault ==
    /\ [](/\ process # "running" => (process = "aborted" /\ frame.unwound)
          /\ stderr # << >> => frame.unwound
          /\ pc \in {"diagnose", "abort"} => frame.unwound
          /\ (pc = "native" /\ process = "running" /\ fired < MaxCallbacks) =>
                \A viewport \in Viewports, data_ptr \in DataPtrs :
                    ENABLED Fire(viewport, data_ptr))
    /\ [][(pc = "caught" /\ ~frame.unwound) =>
              /\ pc' = "native"
              /\ returns' = returns + 1
              /\ stderr' = stderr
              /\ process' = "running"]_allVars

\* A user handler has returned normally twice: both callbacks returned to
\* the native caller, nothing is on standard error, the process runs.
C29_Witness ==
    /\ Len(calls) = 2
    /\ \A i \in 1 .. 2 : calls[i].backend \in UserBackends /\ ~calls[i].panic
    /\ returns = 2
    /\ pc = "native"
    /\ stderr = << >>
    /\ process = "running"

\* C30: the counter is the number of insert calls completed so far, every
\* handle insert has issued is below the counter, and a handle at or above
\* the counter is bound only if replace was applied to it.
C30_CounterCountsInserts ==
    /\ [](/\ next = Len(issued)
          /\ \A i \in 1 .. Len(issued) : TextureId_id(issued[i]) < next)
    /\ [][\A h \in U64 :
              (h >= next' /\ textures'[h] # None /\ textures[h] # textures'[h])
                  => (last'.op = "replace" /\ TextureId_id(last'.id) = h)]_vars

============================================================================
